---- MODULE Spec2Model ----
(***************************************************************************)
(* Model of internal/fs/stable_file_watcher.go: StableFileWatcher, its     *)
(* discovery loop (start), its per-file goroutines (waitUntilFileIsStable) *)
(* and Close, run against a file system and a consumer of Events.          *)
(*                                                                         *)
(* Go semantics used: a select picks any ready case; a receive from a      *)
(* closed channel is always ready; close of a closed channel and a send on *)
(* a closed channel panic, and an unrecovered panic ends the process.      *)
(* time.Timer is the channel timer: expiry puts one value in timer.C,      *)
(* Stop reports whether the timer was still armed.                         *)
(***************************************************************************)
EXTENDS Integers, Sequences, FiniteSets

\* ---- bounds of the model ----
MaxTrackers == 2
MaxQueue == 1
MaxCloseCalls == 2

\* the paths of the watched directory
Paths == {"a", "b"}
Trackers == 1..MaxTrackers

\* StableFileWatcher.StableThreshold, in clock ticks
StableThreshold == 2

VARIABLES
    ctor,           \* NewStableFileWatcher: "new", "listed", "ok", "failed"
    files,          \* the regular files present in watchDir
    existingFiles,  \* the result of readFiles
    dirWatcher,     \* w.dirWatcher: [watching, closed, Events]
    done,           \* w.done: "open" or "closed"
    Events,         \* w.Events: [closed, closes, closedActive, closedByTracker]
    loop,           \* position of start: "idle", "spawn", "select", "returned"
    trk,            \* one record per waitUntilFileIsStable goroutine: its
                    \* position pc, its path, its timer (active, remaining,
                    \* C), its watcher fw (watch, pending), and what it did:
                    \*   since, spaced: ticks since the last notification,
                    \*     and whether all came less than a threshold apart
                    \*   gone: its file was deleted before its timer expired
                    \*   stat: what os.Stat found in the timer branch
                    \*   early: the timer branch ran less than a threshold
                    \*     after the last notification
                    \*   delivered, late: events handed to the consumer, and
                    \*     whether done was closed at the hand-over
                    \*   fw: its watcher is "none", "open" or "closed"
                    \*   pre: started for a file of the listing
                    \*   drained: its last notification found the timer
                    \*     expired and received the expiry from timer.C
    closer,         \* the caller of Close: [pc, calls]
    unseen,         \* files of watchDir that neither the listing nor a
                    \* create notification has reported
    panicked        \* an unrecovered panic has ended the process

vars == <<ctor, files, existingFiles, dirWatcher, done, Events, loop, trk,
          closer, unseen, panicked>>

\* fsnotify.Op values the model distinguishes
Create == "create"
Write == "write"
Remove == "remove"

\* a goroutine slot that has not been started
Unused ==
    [pc |-> "unused", path |-> "a", active |-> FALSE, remaining |-> 0,
     C |-> FALSE, pending |-> 0, watch |-> FALSE,
     since |-> 0, spaced |-> TRUE, gone |-> FALSE,
     stat |-> "none", early |-> FALSE, delivered |-> 0, late |-> FALSE,
     fw |-> "none", pre |-> FALSE, drained |-> FALSE]

Init ==
    /\ ctor = "new"
    /\ files \in SUBSET Paths
    /\ existingFiles = {}
    /\ dirWatcher = [watching |-> FALSE, closed |-> FALSE, Events |-> <<>>]
    /\ done = "open"
    /\ Events = [closed |-> FALSE, closes |-> 0, closedActive |-> FALSE,
                 closedByTracker |-> FALSE]
    /\ loop = "idle"
    /\ trk = [t \in Trackers |-> Unused]
    /\ closer = [pc |-> "idle", calls |-> 0]
    /\ unseen = {}
    /\ panicked = FALSE

\* ---- NewStableFileWatcher ----

\* fsnotify.NewWatcher() fails: the constructor returns the error
NewWatcherFails ==
    /\ ~panicked
    /\ ctor = "new"
    /\ ctor' = "failed"
    /\ UNCHANGED <<files, existingFiles, dirWatcher, done, Events, loop, trk,
                   closer, panicked>>
    /\ UNCHANGED unseen

\* w.readFiles(): the non-directory entries of watchDir, or an error
readFiles ==
    /\ ~panicked
    /\ ctor = "new"
    /\ \E ok \in BOOLEAN :
        IF ok
        THEN ctor' = "listed" /\ existingFiles' = files
        ELSE ctor' = "failed" /\ UNCHANGED existingFiles
    /\ UNCHANGED <<files, dirWatcher, done, Events, loop, trk, closer,
                   panicked>>
    /\ UNCHANGED unseen

\* the end of the constructor as it would be with `go w.start(existingFiles)`
\* ahead of the check of Add's error
NewStableFileWatcherStartsFirst ==
    /\ ~panicked
    /\ ctor = "listed"
    /\ \E ok \in BOOLEAN :
        IF ok
        THEN /\ ctor' = "ok"
             /\ dirWatcher' = [dirWatcher EXCEPT !.watching = TRUE]
        ELSE /\ ctor' = "failed"
             /\ UNCHANGED dirWatcher
    /\ loop' = "spawn"
    /\ UNCHANGED <<files, existingFiles, done, Events, trk, closer, unseen,
                   panicked>>

\* w.dirWatcher.Add(w.watchDir), then go w.start(existingFiles)
NewStableFileWatcher ==
    /\ ~panicked
    /\ ctor = "listed"
    /\ \E ok \in BOOLEAN :
        IF ok
        THEN /\ ctor' = "ok"
             /\ dirWatcher' = [dirWatcher EXCEPT !.watching = TRUE]
             /\ loop' = "spawn"
        ELSE /\ ctor' = "failed"
             /\ UNCHANGED <<dirWatcher, loop>>
    /\ UNCHANGED <<files, existingFiles, done, Events, trk, closer,
                   panicked>>
    /\ UNCHANGED unseen

\* ---- goroutine slots ----

UsedTrackers == {t \in Trackers : trk[t].pc # "unused"}

\* the record of a goroutine just started by `go w.waitUntilFileIsStable(path)`
Started(path, pre) ==
    [Unused EXCEPT !.pc = "start", !.path = path, !.pre = pre]

\* start one goroutine per path, each in the lowest free slot
RECURSIVE SpawnAll(_, _, _)
SpawnAll(t, paths, pre) ==
    IF paths = {} THEN t
    ELSE LET p == CHOOSE q \in paths : TRUE
             free == {i \in Trackers : t[i].pc = "unused"}
         IN  IF free = {} THEN t
             ELSE LET i == CHOOSE j \in free : \A k \in free : j <= k
                  IN  SpawnAll([t EXCEPT ![i] = Started(p, pre)],
                               paths \ {p}, pre)

\* create notifications waiting in the directory stream
PendingCreates ==
    Cardinality({i \in 1..Len(dirWatcher.Events) : dirWatcher.Events[i][1] = Create})

\* discoveries that still need, or already hold, a goroutine slot
SlotsNeeded ==
    Cardinality(UsedTrackers) + PendingCreates
        + (IF loop \in {"idle", "spawn"} THEN Cardinality(existingFiles) ELSE 0)

\* ---- the file system and the notification source (fsnotify) ----

\* the directory stream takes a notification while the directory is watched
DirDelivers == dirWatcher.watching /\ ~dirWatcher.closed

DirNotify(op, p) ==
    IF DirDelivers
    THEN [dirWatcher EXCEPT !.Events = Append(@, <<op, p>>)]
    ELSE dirWatcher

DirHasRoom == ~DirDelivers \/ Len(dirWatcher.Events) < MaxQueue

\* trackers whose path-scoped watch is on the present file at p
Watching(p) == {t \in Trackers : trk[t].watch /\ trk[t].path = p}

Min(a, b) == IF a < b THEN a ELSE b

\* a change notification reaches the path-scoped watcher of a goroutine;
\* it is read only by the select, and unread notifications beyond the
\* capacity of the stream coalesce
FileNotify(r) ==
    IF r.pc # "select" THEN r ELSE
    [r EXCEPT !.pending = Min(@ + 1, MaxQueue),
              !.spaced = @ /\ r.since < StableThreshold,
              !.since = 0]

\* a file appears in watchDir
FsCreate(p) ==
    /\ ~panicked
    /\ p \notin files
    /\ DirHasRoom
    /\ DirDelivers => SlotsNeeded < MaxTrackers
    /\ files' = files \cup {p}
    /\ dirWatcher' = DirNotify(Create, p)
    /\ unseen' = IF ~DirDelivers /\ ctor = "listed" THEN unseen \cup {p}
                 ELSE unseen
    /\ UNCHANGED <<ctor, existingFiles, done, Events, loop, trk, closer,
                   panicked>>

\* a file of watchDir is written
FsWrite(p) ==
    /\ ~panicked
    /\ p \in files
    /\ DirHasRoom
    /\ dirWatcher' = DirNotify(Write, p)
    /\ trk' = [t \in Trackers |->
                 IF t \in Watching(p) THEN FileNotify(trk[t]) ELSE trk[t]]
    /\ UNCHANGED <<ctor, files, existingFiles, done, Events, loop, closer,
                   panicked>>
    /\ UNCHANGED unseen

\* a file of watchDir is deleted: the watches on it report the removal and end
FsRemove(p) ==
    /\ ~panicked
    /\ p \in files
    /\ DirHasRoom
    /\ files' = files \ {p}
    /\ dirWatcher' = DirNotify(Remove, p)
    /\ unseen' = unseen \ {p}
    /\ trk' = [t \in Trackers |->
                 IF t \in Watching(p)
                 THEN [FileNotify(trk[t]) EXCEPT
                          !.watch = FALSE,
                          !.gone = @ \/ (trk[t].pc = "select" /\ ~trk[t].C)]
                 ELSE trk[t]]
    /\ UNCHANGED <<ctor, existingFiles, done, Events, loop, closer,
                   panicked>>

\* ---- StableFileWatcher.start ----

\* for _, file := range existingFiles { go w.waitUntilFileIsStable(path) }
startExisting ==
    /\ ~panicked
    /\ loop = "spawn"
    /\ trk' = SpawnAll(trk, existingFiles, TRUE)
    /\ loop' = "select"
    /\ UNCHANGED <<ctor, files, existingFiles, dirWatcher, done, Events,
                   closer, panicked>>
    /\ UNCHANGED unseen

\* close(w.Events) by the discovery loop (who = "start") or by a tracker
CloseEvents(who) ==
    [closed |-> TRUE, closes |-> Events.closes + 1,
     closedActive |-> Events.closedActive \/ done = "open",
     closedByTracker |-> Events.closedByTracker \/ who # "start"]

\* the loop as it would be if it took the end of the directory stream for
\* the cancellation: it closes Events as soon as either is closed
startDoneOnStreamEnd ==
    /\ ~panicked
    /\ loop = "select"
    /\ done = "closed" \/ dirWatcher.closed
    /\ loop' = "returned"
    /\ IF Events.closed
       THEN panicked' = TRUE /\ UNCHANGED Events
       ELSE Events' = CloseEvents("start") /\ UNCHANGED panicked
    /\ UNCHANGED <<ctor, files, existingFiles, dirWatcher, done, trk, closer>>
    /\ UNCHANGED unseen

\* case <-w.done: close(w.Events); return
startDone ==
    /\ ~panicked
    /\ loop = "select"
    /\ done = "closed"
    /\ loop' = "returned"
    /\ IF Events.closed
       THEN panicked' = TRUE /\ UNCHANGED Events
       ELSE Events' = CloseEvents("start") /\ UNCHANGED panicked
    /\ UNCHANGED <<ctor, files, existingFiles, dirWatcher, done, trk, closer>>
    /\ UNCHANGED unseen

\* what a receive from w.dirWatcher.Events yields: the head of the stream,
\* or the zero Event once the stream is closed
DirReady == Len(dirWatcher.Events) > 0 \/ dirWatcher.closed
DirHead ==
    IF Len(dirWatcher.Events) > 0 THEN dirWatcher.Events[1] ELSE <<"none", "">>

\* fileEvent.Op&fsnotify.Create == fsnotify.Create
IsCreate(ev) == ev[1] = Create

\* case fileEvent := <-w.dirWatcher.Events
startDirEvent ==
    /\ ~panicked
    /\ loop = "select"
    /\ DirReady
    /\ dirWatcher' = [dirWatcher EXCEPT
                        !.Events = IF Len(@) > 0 THEN Tail(@) ELSE @]
    /\ IF IsCreate(DirHead) /\ DirHead[2] \in Paths
       THEN trk' = SpawnAll(trk, {DirHead[2]}, FALSE)
       ELSE UNCHANGED trk
    /\ UNCHANGED <<ctor, files, existingFiles, done, Events, loop, closer,
                   panicked>>
    /\ UNCHANGED unseen

\* ---- StableFileWatcher.Close ----

\* w.dirWatcher.Close(): the stream is closed, what it held is dropped
CloseDirWatcher ==
    /\ ~panicked
    /\ ctor = "ok"
    /\ closer.pc = "idle"
    /\ closer.calls < MaxCloseCalls
    /\ closer' = [closer EXCEPT !.pc = "closing"]
    /\ dirWatcher' = [watching |-> FALSE, closed |-> TRUE, Events |-> <<>>]
    /\ UNCHANGED <<ctor, files, existingFiles, done, Events, loop, trk,
                   panicked>>
    /\ UNCHANGED unseen

\* close(w.done): panics when done is already closed
CloseDone ==
    /\ ~panicked
    /\ closer.pc = "closing"
    /\ IF done = "closed"
       THEN /\ panicked' = TRUE
            /\ closer' = [closer EXCEPT !.pc = "panicked"]
            /\ UNCHANGED done
       ELSE /\ done' = "closed"
            /\ closer' = [pc |-> "idle", calls |-> closer.calls + 1]
            /\ UNCHANGED panicked
    /\ UNCHANGED <<ctor, files, existingFiles, dirWatcher, Events, loop, trk>>
    /\ UNCHANGED unseen

\* ---- waitUntilFileIsStable ----

\* a return as it would be without `defer fw.Close()`
ReturnLeaksWatcher(r) ==
    [r EXCEPT !.pc = "exited", !.active = FALSE, !.remaining = 0,
              !.C = FALSE, !.pending = 0, !.watch = FALSE,
              !.since = 0, !.spaced = TRUE, !.drained = FALSE]

\* the deferred timer.Stop() and fw.Close() of a returning goroutine
Return(r) ==
    [r EXCEPT !.pc = "exited", !.active = FALSE, !.remaining = 0,
              !.C = FALSE, !.pending = 0, !.watch = FALSE,
              !.since = 0, !.spaced = TRUE, !.drained = FALSE,
              !.fw = IF @ = "open" THEN "closed" ELSE @]

\* timer.Reset(w.StableThreshold), also time.NewTimer(w.StableThreshold)
Reset(r) == [r EXCEPT !.active = TRUE, !.remaining = StableThreshold]

\* the start of the goroutine as it would be with log.Panic in place of
\* log.Println and return: a failure of NewWatcher or Add ends the process
waitSubscribePanics(t) ==
    /\ ~panicked
    /\ trk[t].pc = "start"
    /\ \E ok, added \in BOOLEAN :
        IF ok /\ added /\ trk[t].path \in files
        THEN /\ trk' = [trk EXCEPT ![t] =
                          Reset([@ EXCEPT !.pc = "select", !.watch = TRUE,
                                          !.fw = "open"])]
             /\ UNCHANGED panicked
        ELSE /\ trk' = [trk EXCEPT ![t].pc = "panicked"]
             /\ panicked' = TRUE
    /\ UNCHANGED <<ctor, files, existingFiles, dirWatcher, done, Events, loop,
                   closer, unseen>>

\* fsnotify.NewWatcher() and fw.Add(path): the goroutine returns when either
\* fails (Add fails for a path that is gone); else it arms the timer.
\* defer fw.Close() is registered once NewWatcher has succeeded
waitSubscribe(t) ==
    /\ ~panicked
    /\ trk[t].pc = "start"
    /\ \E ok, added \in BOOLEAN :
        trk' = [trk EXCEPT ![t] =
                  IF ~ok THEN Return(@)
                  ELSE IF added /\ trk[t].path \in files
                  THEN Reset([@ EXCEPT !.pc = "select", !.watch = TRUE,
                                       !.fw = "open"])
                  ELSE Return([@ EXCEPT !.fw = "open"])]
    /\ UNCHANGED <<ctor, files, existingFiles, dirWatcher, done, Events, loop,
                   closer, panicked>>
    /\ UNCHANGED unseen

\* case <-w.done: return
waitDone(t) ==
    /\ ~panicked
    /\ trk[t].pc = "select"
    /\ done = "closed"
    /\ trk' = [trk EXCEPT ![t] = Return(@)]
    /\ UNCHANGED <<ctor, files, existingFiles, dirWatcher, done, Events, loop,
                   closer, panicked>>
    /\ UNCHANGED unseen

\* the re-arm as it would be without the drain: timer.Stop(); timer.Reset(..)
StopResetNoDrain(r) ==
    Reset([r EXCEPT !.drained = ~r.active])

\* the re-arm as it would be with the drain whatever Stop reports:
\* timer.Stop(); <-timer.C; timer.Reset(..)
StopDrainAlways(r) ==
    IF r.C THEN Reset([r EXCEPT !.C = FALSE, !.drained = TRUE])
    ELSE [r EXCEPT !.pc = "draining"]

\* if !timer.Stop() { <-timer.C }; timer.Reset(w.StableThreshold)
\* Stop reports false for a timer that is not armed; the receive then needs
\* the value of the expiry in timer.C, and blocks for good without it
StopDrainReset(r) ==
    IF r.active THEN Reset([r EXCEPT !.drained = FALSE])
    ELSE IF r.C THEN Reset([r EXCEPT !.C = FALSE, !.drained = TRUE])
    ELSE [r EXCEPT !.pc = "draining"]

\* case <-fw.Events
waitChanged(t) ==
    /\ ~panicked
    /\ trk[t].pc = "select"
    /\ trk[t].pending > 0
    /\ trk' = [trk EXCEPT ![t] = StopDrainReset([@ EXCEPT !.pending = @ - 1])]
    /\ UNCHANGED <<ctor, files, existingFiles, dirWatcher, done, Events, loop,
                   closer, panicked>>
    /\ UNCHANGED unseen

\* _, err := os.Stat(path); err == nil
Stat(path) == path \in files

\* the timer branch as it would be without the check of err: it sends
\* whatever os.Stat found
TimerBranchNoStat(r) ==
    [r EXCEPT !.pc = "sending", !.C = FALSE,
              !.stat = IF Stat(r.path) THEN "ok" ELSE "gone",
              !.early = r.spaced /\ r.since < StableThreshold,
              !.since = 0, !.spaced = TRUE, !.pending = 0,
              !.drained = FALSE]

\* case <-timer.C: the goroutine goes on to send when os.Stat finds the file
\* and returns when it does not
TimerBranch(r) ==
    LET q == [r EXCEPT !.C = FALSE,
                       !.stat = IF Stat(r.path) THEN "ok" ELSE "gone",
                       !.early = r.spaced /\ r.since < StableThreshold,
                       !.since = 0, !.spaced = TRUE, !.pending = 0,
                       !.drained = FALSE]
    IN  IF Stat(r.path)
        THEN [q EXCEPT !.pc = "sending"]
        ELSE Return(q)

waitTimer(t) ==
    /\ ~panicked
    /\ trk[t].pc = "select"
    /\ trk[t].C
    /\ trk' = [trk EXCEPT ![t] = TimerBranch(@)]
    /\ UNCHANGED <<ctor, files, existingFiles, dirWatcher, done, Events, loop,
                   closer, panicked>>
    /\ UNCHANGED unseen

\* w.Events <- FileEvent{Path: path} on the closed channel: the send panics
waitSendPanics(t) ==
    /\ ~panicked
    /\ trk[t].pc = "sending"
    /\ Events.closed
    /\ trk' = [trk EXCEPT ![t].pc = "panicked"]
    /\ panicked' = TRUE
    /\ UNCHANGED <<ctor, files, existingFiles, dirWatcher, done, Events, loop,
                   closer>>
    /\ UNCHANGED unseen

\* ---- the consumer of Events ----

\* the hand-over as it would be if the goroutine went round its loop after
\* the send, the timer armed again, instead of returning
ReceiveAndRearm(t) ==
    /\ ~panicked
    /\ trk[t].pc = "sending"
    /\ ~Events.closed
    /\ trk' = [trk EXCEPT ![t] =
                  Reset([@ EXCEPT !.pc = "select", !.delivered = @ + 1,
                                  !.late = done = "closed"])]
    /\ UNCHANGED <<ctor, files, existingFiles, dirWatcher, done, Events, loop,
                   closer, unseen, panicked>>

\* w.Events <- FileEvent{Path: path} meets a receive of the consumer; the
\* goroutine returns
Receive(t) ==
    /\ ~panicked
    /\ trk[t].pc = "sending"
    /\ ~Events.closed
    /\ trk' = [trk EXCEPT ![t] =
                  Return([@ EXCEPT !.delivered = @ + 1,
                                   !.late = done = "closed"])]
    /\ UNCHANGED <<ctor, files, existingFiles, dirWatcher, done, Events, loop,
                   closer, panicked>>
    /\ UNCHANGED unseen

\* ---- time ----

\* one tick of the clock for goroutine t: its armed timer comes one tick
\* nearer and, at its deadline, expires (the runtime puts the expiry in
\* timer.C); the time since its last notification grows (kept up to the
\* threshold, beyond which it makes no difference)
Elapse(r) ==
    [r EXCEPT !.remaining = IF r.active THEN @ - 1 ELSE @,
              !.active = r.active /\ r.remaining > 1,
              !.C = r.C \/ (r.active /\ r.remaining = 1),
              !.since = IF r.pc = "select" THEN Min(@ + 1, StableThreshold)
                        ELSE @]

\* the clock advances
Tick ==
    /\ ~panicked
    /\ trk' = [t \in Trackers |-> Elapse(trk[t])]
    /\ UNCHANGED <<ctor, files, existingFiles, dirWatcher, done, Events, loop,
                   closer, panicked>>
    /\ UNCHANGED unseen

\* ---- the system ----

Next ==
    \/ NewWatcherFails
    \/ readFiles
    \/ NewStableFileWatcher
    \/ \E p \in Paths : FsCreate(p)
    \/ \E p \in Paths : FsWrite(p)
    \/ \E p \in Paths : FsRemove(p)
    \/ startExisting
    \/ startDone
    \/ startDirEvent
    \/ CloseDirWatcher
    \/ CloseDone
    \/ \E t \in Trackers : waitSubscribe(t)
    \/ \E t \in Trackers : waitDone(t)
    \/ \E t \in Trackers : waitChanged(t)
    \/ \E t \in Trackers : waitTimer(t)
    \/ \E t \in Trackers : waitSendPanics(t)
    \/ \E t \in Trackers : Receive(t)
    \/ Tick

Spec == Init /\ [][Next]_vars

\* the scheduling of the goroutines: each step of the program that stays
\* possible is taken (a select takes each ready case sooner or later); the
\* file system, the caller of Close and the consumer promise nothing
Fairness ==
    /\ WF_vars(startExisting)
    /\ WF_vars(startDone)
    /\ WF_vars(CloseDone)
    /\ \A t \in Trackers :
        /\ WF_vars(waitSubscribe(t))
        /\ WF_vars(waitDone(t))
        /\ WF_vars(waitChanged(t))
        /\ WF_vars(waitTimer(t))
        /\ WF_vars(waitSendPanics(t))

FairSpec == Init /\ [][Next]_vars /\ Fairness

Live(t) == trk[t].pc \in {"start", "select", "draining", "sending"}

TypeOK ==
    /\ ctor \in {"new", "listed", "ok", "failed"}
    /\ files \subseteq Paths
    /\ done \in {"open", "closed"}
    /\ loop \in {"idle", "spawn", "select", "returned"}
    /\ \A t \in Trackers :
        /\ trk[t].pc \in {"unused", "start", "select", "draining", "sending",
                          "exited", "panicked"}
        /\ trk[t].fw \in {"none", "open", "closed"}
        /\ trk[t].path \in Paths
    /\ unseen \subseteq files
    \* every discovery finds a goroutine slot
    /\ SlotsNeeded <= MaxTrackers
    /\ Len(dirWatcher.Events) <= MaxQueue

\* ---- the claims ----

\* C1: once done is closed, no StabilityEvent is handed over on Events.
C1_NoEventAfterCancel ==
    \A t \in Trackers : trk[t].delivered > 0 => ~trk[t].late

\* C2: once Events is closed no tracker is sending, or blocked in a send, on
\* it (no send on a closed channel).
C2_NoSendOnClosedEvents ==
    Events.closed => \A t \in Trackers : trk[t].pc \notin {"sending", "panicked"}

\* C3: no call of Close ends in a panic, however often Close is called.
C3_CloseIdempotent ==
    closer.pc # "panicked"

\* C4: after Close, every tracker goroutine eventually returns.
C4_TrackersTerminate ==
    (done = "closed") ~> (\A t \in Trackers : trk[t].pc \in {"unused", "exited"})

\* C5: after Close, the discovery loop eventually closes Events and returns.
C5_LoopClosesEvents ==
    (done = "closed") ~> (Events.closed /\ loop = "returned")

\* C6: Events is closed at most once, by the discovery loop only, and only
\* when done is closed and the loop returns.
C6_EventsClosedOnce ==
    /\ Events.closes <= 1
    /\ ~Events.closedActive
    /\ ~Events.closedByTracker
    /\ Events.closed <=> loop = "returned"
    /\ Events.closed => done = "closed"

C6_Witness ==
    Events.closed /\ Events.closes = 1 /\ closer.calls = 1

\* C7: a tracker whose notifications came less than a threshold apart sends
\* no event before a full threshold has passed since the last of them.
C7_Debounce ==
    \A t \in Trackers : trk[t].stat = "ok" => ~trk[t].early

\* C8: a tracker whose file was deleted before its timer expired never
\* produces an event.
C8_DeletedNeverReported ==
    \A t \in Trackers : trk[t].gone => trk[t].delivered = 0

\* C9: a tracker sends an event only when os.Stat found the file in the
\* timer branch, and a tracker whose os.Stat failed has returned without one.
C9_EventOnlyIfExists ==
    \A t \in Trackers :
        /\ (trk[t].pc \in {"sending", "panicked"} \/ trk[t].delivered > 0)
              => trk[t].stat = "ok"
        /\ trk[t].stat = "gone" => trk[t].pc = "exited" /\ trk[t].delivered = 0

C9_Witness ==
    \E t, u \in Trackers :
        /\ trk[t].delivered = 1 /\ trk[t].stat = "ok"
        /\ trk[u].stat = "gone" /\ trk[u].pc = "exited"

\* C10: no two live trackers have the same path.
C10_OneTrackerPerPath ==
    \A t, u \in Trackers : (t # u /\ Live(t) /\ Live(u)) => trk[t].path # trk[u].path

\* the trackers started for path p (one per discovery of p), and the events
\* delivered for p
TrackersOf(p) == {t \in UsedTrackers : trk[t].path = p}

RECURSIVE SumDelivered(_)
SumDelivered(T) ==
    IF T = {} THEN 0
    ELSE LET t == CHOOSE u \in T : TRUE
         IN  trk[t].delivered + SumDelivered(T \ {t})

\* C11: a tracker hands over at most one event and has returned once it has;
\* the events delivered for a path are at most its discoveries.
C11_OneEventPerDiscovery ==
    /\ \A t \in Trackers :
        /\ trk[t].delivered <= 1
        /\ trk[t].delivered = 1 => trk[t].pc = "exited"
    /\ \A p \in Paths : SumDelivered(TrackersOf(p)) <= Cardinality(TrackersOf(p))

\* a path discovered twice, each of its trackers having delivered its event
C11_Witness ==
    \E p \in Paths :
        /\ Cardinality(TrackersOf(p)) = 2
        /\ \A t \in TrackersOf(p) : trk[t].delivered = 1

\* C13: the tracker of a file of the initial listing, its notifications less
\* than a threshold apart, sends no event before a full threshold has passed
\* since the last of them.
C13_PreExistingDebounced ==
    \A t \in Trackers :
        trk[t].pre /\ trk[t].stat = "ok" => ~trk[t].early

\* C14: no step taken with done closed starts a tracker goroutine.
C14_NoSpawnAfterCancel ==
    [][done = "closed" =>
          \A t \in Trackers : trk[t].pc = "unused" => trk'[t].pc = "unused"]_vars

\* a step in which goroutine t ends on a failure of its own: it could not
\* subscribe to its path, or os.Stat did not find the file when the timer fired
FailureStep(t) ==
    \/ trk[t].pc = "start" /\ trk'[t].pc \notin {"start", "select"}
    \/ trk[t].pc = "select" /\ trk[t].stat = "none" /\ trk'[t].stat = "gone"

\* C15: a failure of one tracker ends that goroutine, which has returned
\* without an event, and changes nothing of the loop, of the other trackers,
\* of Events or of the process.
C15_FailureIsLocal ==
    [][\A t \in Trackers :
          FailureStep(t) =>
              /\ trk'[t].pc = "exited" /\ trk'[t].delivered = 0
              /\ \A u \in Trackers \ {t} : trk'[u] = trk[u]
              /\ UNCHANGED <<loop, dirWatcher, done, Events, panicked>>]_vars

\* one tracker has ended on a failure, without an event, while the loop and
\* the other tracker run on
C15_Witness ==
    /\ ~panicked /\ done = "open" /\ loop = "select"
    /\ \E t, u \in Trackers :
        /\ trk[t].pc = "exited" /\ trk[t].delivered = 0
        /\ trk[u].pc = "select"

\* C16: a constructor that returned an error has started neither the loop
\* nor a tracker and has handed out no watcher to close; the loop runs only
\* for a constructor that returned the watcher.
C16_FailedConstructorStartsNothing ==
    /\ ctor = "failed" =>
        /\ loop = "idle"
        /\ UsedTrackers = {}
        /\ closer.calls = 0 /\ done = "open" /\ ~Events.closed
    /\ loop # "idle" \/ UsedTrackers # {} => ctor = "ok"

\* the constructor failed in dirWatcher.Add, after listing files
C16_Witness ==
    ctor = "failed" /\ existingFiles # {}

\* C17: no timer is armed while an expiry of an earlier arming waits in its
\* channel: what a select receives from timer.C is the expiry of the last
\* arming.
C17_OnePendingExpiry ==
    \A t \in Trackers : ~(trk[t].active /\ trk[t].C)

\* a notification found the timer expired, the goroutine took the expiry out
\* of timer.C and armed the timer again, which has since run on
C17_Witness ==
    \E t \in Trackers :
        /\ trk[t].drained /\ trk[t].active /\ ~trk[t].C
        /\ trk[t].remaining < StableThreshold

\* C18: a goroutine that has returned has no open watcher.
C18_SubscriptionReleased ==
    \A t \in Trackers : trk[t].pc = "exited" => trk[t].fw # "open"

\* goroutines have returned with their watcher closed on each way out: after
\* the send, and without one (Add failed, done was closed, or the file was
\* gone)
C18_Witness ==
    \E t, u \in Trackers :
        /\ trk[t].pc = "exited" /\ trk[t].fw = "closed" /\ trk[t].delivered = 1
        /\ trk[u].pc = "exited" /\ trk[u].fw = "closed" /\ trk[u].delivered = 0

\* C19: every file in watchDir of a constructed watcher was listed by
\* readFiles or reported by a create notification.
C19_NoFileMissed ==
    ctor = "ok" => unseen = {}

\* C20: no goroutine is blocked in the receive from timer.C of the re-arm.
C20_DrainNeverBlocks ==
    \A t \in Trackers : trk[t].pc # "draining"

\* timer.Stop() reported an expired timer, the receive from timer.C went
\* through, and the goroutine is back at its select with the timer armed
C20_Witness ==
    \E t \in Trackers :
        /\ trk[t].drained /\ trk[t].pc = "select"
        /\ trk[t].active /\ trk[t].remaining = StableThreshold

\* ---- files that are created and then left alone ----

\* the program with an environment that only creates files: no write, no
\* removal, no call of Close, every path-scoped subscription acquired, and a
\* consumer that receives
QuietNext ==
    \/ NewWatcherFails
    \/ readFiles
    \/ NewStableFileWatcher
    \/ \E p \in Paths : FsCreate(p)
    \/ startExisting
    \/ startDirEvent
    \/ \E t \in Trackers : waitSubscribe(t) /\ trk'[t].pc = "select"
    \/ \E t \in Trackers : waitTimer(t)
    \/ \E t \in Trackers : Receive(t)
    \/ Tick

\* goroutines that can run do run, the clock advances and the consumer keeps
\* reading Events
QuietFairness ==
    /\ WF_vars(startExisting)
    /\ WF_vars(startDirEvent)
    /\ WF_vars(Tick)
    /\ \A t \in Trackers :
        /\ WF_vars(waitSubscribe(t) /\ trk'[t].pc = "select")
        /\ WF_vars(waitTimer(t))
        /\ WF_vars(Receive(t))

QuietSpec == Init /\ [][QuietNext]_vars /\ QuietFairness

\* C12: a file that is in watchDir of a constructed watcher, and is never
\* written or removed, eventually has its event delivered.
C12_QuietFileReported ==
    \A p \in Paths :
        (ctor = "ok" /\ p \in files)
            ~> (\E t \in Trackers : trk[t].path = p /\ trk[t].delivered = 1)

====
